---- MODULE Spec2Model ----
(***************************************************************************)
(* State-machine model of runfile_generation/runfilegeneration.py:         *)
(*   Magnetism (random_antiferromagnetic, afm_structures,                  *)
(*   get_magnetic_structures), CalculationType (structure_rescaler,        *)
(*   get_unique_sites, alter_structures) and WriteVaspFiles                *)
(*   (check_directory_existence, write_vasp_poscar).                       *)
(***************************************************************************)
EXTENDS Integers, Sequences, FiniteSets, TLC

VARIABLES
    \* ---- frame of Magnetism.random_antiferromagnetic -------------------
    ferro_magmom,        \* argument ferro_magmom
    used_enumerations,   \* argument used_enumerations (a list, appended to)
    num_afm,             \* argument num_afm of the innermost call
    num_tries,           \* argument num_tries of the innermost call
    epc,                 \* "idle" | "running" | "returned"
    target_count,        \* num_afm of the outermost call
    max_attempts,        \* num_tries of the outermost call
    nested_calls,        \* recursive calls made below the outermost call
    rejected,            \* draws that took the dont_use branch
    \* ---- Magnetism ----------------------------------------------------
    structures_dict,             \* list of input structures (dict values, in order)
    magnetization_dict,          \* [Scheme, Max_antiferro]
    self_num_tries,              \* Magnetism.num_tries
    magnetized_structures_dict,  \* dict: structure key -> dict: label -> structure
    unique_magnetizations,       \* dict: structure key -> dict: label -> magmom
    structure_number,            \* Magnetism.structure_number
    mpc,                         \* "loop" | "enum" | "done" | "exited"
    enumerator_calls,            \* outermost calls of random_antiferromagnetic
    printed,                     \* what print() wrote, in order
    \* ---- CalculationType ----------------------------------------------
    calculation_dict,            \* [Type, Defect]
    calculation_structures_dict, \* dict: key -> dict: label -> (structure | dict)
    unique_defect_sites,         \* "None" or dict: key -> dict: site -> record
    cpc,                         \* "idle" | "alter" | "done" | "exited"
    cpos,                        \* <<i, j>>: the (structure, magnetism) pair reached
    symmetry_log,                \* dict: <<i, j>> -> equivalent_positions reported
    \* ---- WriteVaspFiles -----------------------------------------------
    dirs,                        \* directories that exist
    files,                       \* files written
    wpc,                         \* "idle" | "loop" | "done"
    wpos,                        \* <<i, j>>: the (structure, magnetism) pair reached
    \* ---- CalculationType.structure_rescaler called alone --------------
    rs_input,                    \* the structure as it was passed
    rs_structure,                \* the structure (rescaled in place)
    rs_supercells,               \* arguments of the make_supercell calls made
    rs_pc                        \* "idle" | "call" | "returned"

enumVars == <<ferro_magmom, used_enumerations, num_afm, num_tries, epc,
              target_count, max_attempts, nested_calls, rejected>>
magVars == <<structures_dict, magnetization_dict, self_num_tries,
             magnetized_structures_dict, unique_magnetizations,
             structure_number, mpc, enumerator_calls, printed>>
calcVars == <<calculation_dict, calculation_structures_dict, unique_defect_sites,
              cpc, cpos, symmetry_log>>
writeVars == <<dirs, files, wpc, wpos>>
rsVars == <<rs_input, rs_structure, rs_supercells, rs_pc>>
laterVars == <<calcVars, writeVars, rsVars>>
vars == <<enumVars, magVars, calcVars, writeVars, rsVars>>

\* ------------------------------------------------------------------------
\* Bounds of the model
\* ------------------------------------------------------------------------
MaxLen == 2        \* longest reference vector given to the enumerator alone
MaxAfm == 2        \* largest num_afm / Max_antiferro
MaxTries == 3      \* largest num_tries
MaxSites == 2      \* most sites of an input structure
MaxStructures == 2 \* most input structures of a Magnetism run on its own
PipeMaxStructures == 2 \* most input structures of a pipeline run
PipeMaxAfm == 1    \* largest Max_antiferro of a pipeline run
PipeMaxTries == 1  \* largest num_tries of a pipeline run
MaxAtoms == 70     \* most sites of a structure given to the rescaler alone

Moments == {-1, 0, 1, 5}

\* ------------------------------------------------------------------------
\* Magnetism.random_antiferromagnetic
\* ------------------------------------------------------------------------
\* random.choices([-1, 1], k=n): every sign pattern of length n
SignPatterns(n) == [1..n -> {-1, 1}]

\* np.multiply(antiferro_mag_scheme, ferro_magmom)
Multiply(scheme, magmom) == [i \in 1..Len(magmom) |-> scheme[i] * magmom[i]]

\* np.array_equal(a, b): same shape and elementwise equal (-0.0 == 0.0)
ArrayEqual(a, b) ==
    /\ Len(a) = Len(b)
    /\ \A i \in 1..Len(a) : a[i] = b[i]

\* dont_use without the comparison with ferro_magmom of line 131
DontUseNoReference(antiferro_mag) ==
    \E i \in 1..Len(used_enumerations) :
        ArrayEqual(antiferro_mag, used_enumerations[i])

\* dont_use after lines 128-136
DontUse(antiferro_mag) ==
    \/ ArrayEqual(antiferro_mag, ferro_magmom)
    \/ \E i \in 1..Len(used_enumerations) :
           ArrayEqual(antiferro_mag, used_enumerations[i])

\* the base case with `and` in place of `or`
BaseCaseBothZero == num_afm = 0 /\ num_tries = 0

\* line 125: if num_afm == 0 or num_tries == 0
BaseCase == num_afm = 0 \/ num_tries = 0

\* the dont_use branch recursing with num_tries instead of num_tries - 1
RafRejectKeepsTries ==
    /\ epc = "running"
    /\ ~BaseCase
    /\ \E scheme \in SignPatterns(Len(ferro_magmom)) :
           DontUse(Multiply(scheme, ferro_magmom))
    /\ nested_calls' = nested_calls + 1
    /\ rejected' = rejected + 1
    /\ UNCHANGED <<ferro_magmom, used_enumerations, num_afm, num_tries, epc,
                   target_count, max_attempts, magVars, laterVars>>

\* lines 138-140: dont_use is True, recurse with num_tries - 1
RafReject ==
    /\ epc = "running"
    /\ ~BaseCase
    /\ \E scheme \in SignPatterns(Len(ferro_magmom)) :
           DontUse(Multiply(scheme, ferro_magmom))
    /\ num_tries' = num_tries - 1
    /\ nested_calls' = nested_calls + 1
    /\ rejected' = rejected + 1
    /\ UNCHANGED <<ferro_magmom, used_enumerations, num_afm, epc,
                   target_count, max_attempts, magVars, laterVars>>

\* the append branch recursing with num_tries - 1 as well
RafAcceptSpendsTry ==
    /\ epc = "running"
    /\ ~BaseCase
    /\ \E scheme \in SignPatterns(Len(ferro_magmom)) :
           LET antiferro_mag == Multiply(scheme, ferro_magmom) IN
           /\ ~DontUse(antiferro_mag)
           /\ used_enumerations' = Append(used_enumerations, antiferro_mag)
    /\ num_afm' = num_afm - 1
    /\ num_tries' = num_tries - 1
    /\ nested_calls' = nested_calls + 1
    /\ UNCHANGED <<ferro_magmom, epc, rejected,
                   target_count, max_attempts, magVars, laterVars>>

\* lines 142-145: append the candidate, recurse with num_afm - 1
RafAccept ==
    /\ epc = "running"
    /\ ~BaseCase
    /\ \E scheme \in SignPatterns(Len(ferro_magmom)) :
           LET antiferro_mag == Multiply(scheme, ferro_magmom) IN
           /\ ~DontUse(antiferro_mag)
           /\ used_enumerations' = Append(used_enumerations, antiferro_mag)
    /\ num_afm' = num_afm - 1
    /\ nested_calls' = nested_calls + 1
    /\ UNCHANGED <<ferro_magmom, num_tries, epc, rejected,
                   target_count, max_attempts, magVars, laterVars>>

\* line 126: return used_enumerations (handed back through every frame)
RafReturn ==
    /\ epc = "running"
    /\ BaseCase
    /\ epc' = "returned"
    /\ UNCHANGED <<ferro_magmom, used_enumerations, num_afm, num_tries,
                   target_count, max_attempts, nested_calls, rejected, magVars,
                   laterVars>>

\* ------------------------------------------------------------------------
\* Python dicts: insertion-ordered lists of <<key, value>> pairs
\* ------------------------------------------------------------------------
EmptyDict == <<>>

DictKeys(d) == [i \in 1..Len(d) |-> d[i][1]]

DictHas(d, k) == \E i \in 1..Len(d) : d[i][1] = k

DictGet(d, k) == d[CHOOSE i \in 1..Len(d) : d[i][1] = k][2]

\* d[k] = v: overwrite in place when k is present, else append
DictSet(d, k, v) ==
    IF DictHas(d, k)
    THEN [i \in 1..Len(d) |-> IF d[i][1] = k THEN <<k, v>> ELSE d[i]]
    ELSE Append(d, <<k, v>>)

\* d[k1][k2] = v
DictSet2(d, k1, k2, v) == DictSet(d, k1, DictSet(DictGet(d, k1), k2, v))

\* ------------------------------------------------------------------------
\* Structures: [species, magmom, has_magmom], one entry per site; sites and
\* list positions are counted from 1 here, from 0 in the code
\* ------------------------------------------------------------------------
Elements == {"Fe", "O"}

SetOf(seq) == {seq[i] : i \in 1..Len(seq)}

\* str(structure.formula): the number of sites of every element
Formula(structure) ==
    [e \in Elements |->
        Cardinality({i \in 1..Len(structure.species) : structure.species[i] = e})]

\* the moment CollinearMagneticStructureAnalyzer gives a species
DefaultMagmom(e) == IF e = "Fe" THEN 5 ELSE 0

\* collinear_object.get_ferromagnetic_structure()
FerroStructure(structure) ==
    [species |-> structure.species,
     magmom |-> [i \in 1..Len(structure.species) |->
                    DefaultMagmom(structure.species[i])],
     has_magmom |-> TRUE]

\* a name made of a formula and an optional number (0: none), its parts
\* separated by sep
Name(formula, number, sep) == [formula |-> formula, number |-> number, sep |-> sep]

\* name.replace(' ', '_')
Underscored(name) == [name EXCEPT !.sep = "_"]

\* 'preserve', 'FM', 'AFM<n>' as <<name, n>>
Label(name, n) == <<name, n>>

\* str(structure.formula) + ' ' + str(self.structure_number)
StructureKey(structure, number) == Name(Formula(structure), number, " ")

\* ------------------------------------------------------------------------
\* Magnetism.get_magnetic_structures / afm_structures
\* ------------------------------------------------------------------------
Schemes == {"preserve", "FM", "AFM", "FM+AFM", "ferri"}

InLoop == mpc = "loop" /\ structure_number <= Len(structures_dict)

CurrentStructure == structures_dict[structure_number]

CurrentKey == StructureKey(CurrentStructure, structure_number)

\* lines 176-177: both dicts get an empty entry for the structure
FreshEntry(d) == DictSet(d, CurrentKey, EmptyDict)

\* lines 179-184
SchemePreserve ==
    /\ InLoop
    /\ magnetization_dict.Scheme = "preserve"
    /\ magnetized_structures_dict' =
           DictSet2(FreshEntry(magnetized_structures_dict), CurrentKey,
                    Label("preserve", 0), CurrentStructure)
    /\ unique_magnetizations' =
           DictSet2(FreshEntry(unique_magnetizations), CurrentKey,
                    Label("preserve", 0),
                    IF CurrentStructure.has_magmom
                    THEN CurrentStructure.magmom
                    ELSE FerroStructure(CurrentStructure).magmom)
    /\ structure_number' = structure_number + 1
    /\ UNCHANGED <<structures_dict, magnetization_dict, self_num_tries, mpc,
                   enumerator_calls, printed, enumVars, laterVars>>

\* lines 186-188
SchemeFM ==
    /\ InLoop
    /\ magnetization_dict.Scheme = "FM"
    /\ magnetized_structures_dict' =
           DictSet2(FreshEntry(magnetized_structures_dict), CurrentKey,
                    Label("FM", 0), FerroStructure(CurrentStructure))
    /\ unique_magnetizations' =
           DictSet2(FreshEntry(unique_magnetizations), CurrentKey,
                    Label("FM", 0), FerroStructure(CurrentStructure).magmom)
    /\ structure_number' = structure_number + 1
    /\ UNCHANGED <<structures_dict, magnetization_dict, self_num_tries, mpc,
                   enumerator_calls, printed, enumVars, laterVars>>

\* afm_structures without its non-magnetic branch
IsNonMagneticNever(magmom) == FALSE

\* line 149: set(magmom) == set([0])
IsNonMagnetic(magmom) == SetOf(magmom) = {0}

\* afm_structures up to the call of random_antiferromagnetic (lines 149-157),
\* entered with the dicts as the caller left them
AfmStructuresBegin(msd, um) ==
    LET ferro_structure == FerroStructure(CurrentStructure) IN
    IF IsNonMagnetic(ferro_structure.magmom)
    THEN /\ magnetized_structures_dict' =
                DictSet2(msd, CurrentKey, Label("FM", 0), ferro_structure)
         /\ unique_magnetizations' =
                DictSet2(um, CurrentKey, Label("FM", 0), ferro_structure.magmom)
         /\ structure_number' = structure_number + 1
         /\ printed' = Append(printed, <<"is not magnetic", Formula(ferro_structure)>>)
         /\ UNCHANGED <<mpc, enumerator_calls, enumVars>>
    ELSE /\ magnetized_structures_dict' = msd
         /\ unique_magnetizations' = um
         /\ ferro_magmom' = ferro_structure.magmom
         /\ used_enumerations' = <<>>
         /\ num_afm' = magnetization_dict.Max_antiferro
         /\ num_tries' = self_num_tries
         /\ target_count' = magnetization_dict.Max_antiferro
         /\ max_attempts' = self_num_tries
         /\ nested_calls' = 0
         /\ rejected' = 0
         /\ epc' = "running"
         /\ enumerator_calls' = enumerator_calls + 1
         /\ mpc' = "enum"
         /\ UNCHANGED <<structure_number, printed>>

\* lines 190-191
SchemeAFM ==
    /\ InLoop
    /\ magnetization_dict.Scheme = "AFM"
    /\ AfmStructuresBegin(FreshEntry(magnetized_structures_dict),
                          FreshEntry(unique_magnetizations))
    /\ UNCHANGED <<structures_dict, magnetization_dict, self_num_tries, laterVars>>

\* lines 193-196
SchemeFMAFM ==
    /\ InLoop
    /\ magnetization_dict.Scheme = "FM+AFM"
    /\ AfmStructuresBegin(
           DictSet2(FreshEntry(magnetized_structures_dict), CurrentKey,
                    Label("FM", 0), FerroStructure(CurrentStructure)),
           DictSet2(FreshEntry(unique_magnetizations), CurrentKey,
                    Label("FM", 0), FerroStructure(CurrentStructure).magmom))
    /\ UNCHANGED <<structures_dict, magnetization_dict, self_num_tries, laterVars>>

\* the copy of ferro_structure with its moments left as they are
AntiferroStructureKeepsMoments(ferro_structure, enumeration) == ferro_structure

\* lines 160-162: a copy of ferro_structure with every moment replaced
AntiferroStructure(ferro_structure, enumeration) ==
    [species |-> ferro_structure.species,
     magmom |-> [i \in 1..Len(ferro_structure.magmom) |-> enumeration[i] + 0],
     has_magmom |-> TRUE]

RECURSIVE RecordAfm(_, _, _, _, _)
\* lines 158-166 on one of the two dicts; magmom_only selects what is stored
RecordAfm(d, ferro_structure, enumerations, afm_enum_number, magmom_only) ==
    IF afm_enum_number > Len(enumerations) THEN d
    ELSE LET antiferro_structure ==
                 AntiferroStructure(ferro_structure, enumerations[afm_enum_number])
         IN RecordAfm(
                DictSet2(d, CurrentKey, Label("AFM", afm_enum_number),
                         IF magmom_only THEN antiferro_structure.magmom
                         ELSE antiferro_structure),
                ferro_structure, enumerations, afm_enum_number + 1, magmom_only)

\* afm_structures after random_antiferromagnetic returned (lines 158-166),
\* then line 202
AfmStructuresFinish ==
    /\ mpc = "enum"
    /\ epc = "returned"
    /\ magnetized_structures_dict' =
           RecordAfm(magnetized_structures_dict, FerroStructure(CurrentStructure),
                     used_enumerations, 1, FALSE)
    /\ unique_magnetizations' =
           RecordAfm(unique_magnetizations, FerroStructure(CurrentStructure),
                     used_enumerations, 1, TRUE)
    /\ structure_number' = structure_number + 1
    /\ mpc' = "loop"
    /\ epc' = "idle"
    /\ UNCHANGED <<structures_dict, magnetization_dict, self_num_tries,
                   enumerator_calls, printed, ferro_magmom, used_enumerations,
                   num_afm, num_tries, target_count, max_attempts, nested_calls,
                   rejected, laterVars>>

\* lines 198-200: print, sys.exit(1)
SchemeUnknown ==
    /\ InLoop
    /\ magnetization_dict.Scheme \notin {"preserve", "FM", "AFM", "FM+AFM"}
    /\ magnetized_structures_dict' = FreshEntry(magnetized_structures_dict)
    /\ unique_magnetizations' = FreshEntry(unique_magnetizations)
    /\ mpc' = "exited"
    /\ printed' = Append(printed, <<"Magnetization Scheme not recognized",
                                     magnetization_dict.Scheme>>)
    /\ UNCHANGED <<structures_dict, magnetization_dict, self_num_tries,
                   structure_number, enumerator_calls, enumVars, laterVars>>

\* the for loop of line 171 is over: Magnetism.__init__ returns
MagnetismReturn ==
    /\ mpc = "loop"
    /\ structure_number > Len(structures_dict)
    /\ mpc' = "done"
    /\ UNCHANGED <<structures_dict, magnetization_dict, self_num_tries,
                   magnetized_structures_dict, unique_magnetizations,
                   structure_number, enumerator_calls, printed, enumVars,
                   laterVars>>

\* ------------------------------------------------------------------------
\* CalculationType.structure_rescaler
\* ------------------------------------------------------------------------
\* structure.make_supercell(scaling): every site is followed by its images,
\* site properties are carried along
MakeSupercell(structure, scaling) ==
    LET images == scaling[1] * scaling[2] * scaling[3]
        n == Len(structure.species) * images
    IN [species |-> [r \in 1..n |-> structure.species[((r - 1) \div images) + 1]],
        magmom |-> [r \in 1..n |-> structure.magmom[((r - 1) \div images) + 1]],
        has_magmom |-> structure.has_magmom]

\* the chain with < in place of <=
ScalingMatrixOffByOne(n) ==
    IF n < 2 THEN <<4, 4, 4>>
    ELSE IF n < 4 THEN <<3, 3, 3>>
    ELSE IF n < 7 THEN <<3, 3, 2>>
    ELSE IF n < 10 THEN <<3, 2, 2>>
    ELSE IF n < 16 THEN <<2, 2, 2>>
    ELSE IF n < 32 THEN <<2, 2, 1>>
    ELSE IF n < 64 THEN <<2, 1, 1>>
    ELSE <<>>

\* the if/elif chain of lines 215-230 on n = len(structure.species):
\* the argument of make_supercell, <<>> for the final else (pass)
ScalingMatrix(n) ==
    IF n <= 2 THEN <<4, 4, 4>>
    ELSE IF n <= 4 THEN <<3, 3, 3>>
    ELSE IF n <= 7 THEN <<3, 3, 2>>
    ELSE IF n <= 10 THEN <<3, 2, 2>>
    ELSE IF n <= 16 THEN <<2, 2, 2>>
    ELSE IF n <= 32 THEN <<2, 2, 1>>
    ELSE IF n <= 64 THEN <<2, 1, 1>>
    ELSE <<>>

\* lines 214-231
StructureRescaler(structure) ==
    LET scaling == ScalingMatrix(Len(structure.species)) IN
    IF scaling = <<>> THEN structure ELSE MakeSupercell(structure, scaling)

\* structure_rescaler(structure) called on its own
RescalerCall ==
    /\ rs_pc = "call"
    /\ rs_structure' = StructureRescaler(rs_structure)
    /\ rs_supercells' =
           IF ScalingMatrix(Len(rs_structure.species)) = <<>> THEN rs_supercells
           ELSE Append(rs_supercells, ScalingMatrix(Len(rs_structure.species)))
    /\ rs_pc' = "returned"
    /\ UNCHANGED <<rs_input, enumVars, magVars, calcVars, writeVars>>

\* ------------------------------------------------------------------------
\* CalculationType.get_unique_sites
\* ------------------------------------------------------------------------
\* the equivalent_positions SpacegroupAnalyzer can report for a supercell of
\* a cell of n sites with `images` images per site: the images of a site are
\* equivalent by translation, sites of the cell may or may not be equivalent,
\* equivalent sites have one species, a class is labelled by its first site
EquivalentPositions(structure, n, images) ==
    LET cell_classes ==
            {f \in [1..n -> 1..n] :
                \A i \in 1..n :
                    /\ f[i] <= i
                    /\ f[f[i]] = f[i]
                    /\ structure.species[(f[i] - 1) * images + 1]
                           = structure.species[(i - 1) * images + 1]}
    IN {[r \in 1..Len(structure.species) |->
            (f[((r - 1) \div images) + 1] - 1) * images + 1] : f \in cell_classes}

RECURSIVE SortedSeq(_)
\* the set s of numbers in increasing order (np.unique sorts)
SortedSeq(s) ==
    IF s = {} THEN <<>>
    ELSE LET m == CHOOSE x \in s : \A y \in s : x <= y
         IN <<m>> \o SortedSeq(s \ {m})

\* lines 237-247: one entry per class, keyed by the representative site (its
\* index names it), in increasing index order
GetUniqueSites(equivalent_sites) ==
    LET unique_site_indices == SortedSeq(SetOf(equivalent_sites)) IN
    [k \in 1..Len(unique_site_indices) |->
        <<unique_site_indices[k],
          [Index |-> unique_site_indices[k],
           EquivalentSites |->
               Cardinality({r \in 1..Len(equivalent_sites) :
                               equivalent_sites[r] = unique_site_indices[k]})]>>]

\* ------------------------------------------------------------------------
\* CalculationType.alter_structures
\* ------------------------------------------------------------------------
RECURSIVE NextPair(_, _, _)
\* the next (structure, magnetism) pair of the nested for loops at or after
\* <<i, j>>; <<Len(d) + 1, 1>> when the loops are over
NextPair(d, i, j) ==
    IF i > Len(d) THEN <<Len(d) + 1, 1>>
    ELSE IF j <= Len(d[i][2]) THEN <<i, j>>
    ELSE NextPair(d, i + 1, 1)

\* structure.remove_sites([index])
RemoveSites(structure, index) ==
    [species |-> [r \in 1..(Len(structure.species) - 1) |->
                     structure.species[IF r < index THEN r ELSE r + 1]],
     magmom |-> [r \in 1..(Len(structure.magmom) - 1) |->
                    structure.magmom[IF r < index THEN r ELSE r + 1]],
     has_magmom |-> structure.has_magmom]

\* the key without its defect_number
DefectKeyUnnumbered(defect_structure, defect_number) ==
    Name(Formula(defect_structure), 0, " ")

\* lines 277-278: defect_key + ' ' + str(defect_number)
DefectKey(defect_structure, defect_number) ==
    Name(Formula(defect_structure), defect_number, " ")

\* line 274: Element(site species) == Element(defect_element)
IsDefectSite(rescaled_structure, index, defect_element) ==
    rescaled_structure.species[index] = defect_element

RECURSIVE DefectLoop(_, _, _, _, _, _, _)
\* the for loop of lines 272-282 from the k-th class on:
\* <<defect_dict, unique_defects_dict>>
DefectLoop(rescaled_structure, unique_site_dict, defect_element, k, defect_number, defect_dict, unique_defects_dict) ==
    IF k > Len(unique_site_dict) THEN <<defect_dict, unique_defects_dict>>
    ELSE LET periodic_site == unique_site_dict[k][1]
             site_info == unique_site_dict[k][2]
             defect_structure == RemoveSites(rescaled_structure, site_info.Index)
             key == DefectKey(defect_structure, defect_number)
         IN IF IsDefectSite(rescaled_structure, periodic_site, defect_element)
            THEN DefectLoop(rescaled_structure, unique_site_dict, defect_element,
                     k + 1, defect_number + 1,
                     DictSet(defect_dict, key, defect_structure),
                     DictSet(unique_defects_dict, periodic_site,
                             [Index |-> site_info.Index,
                              EquivalentSites |-> site_info.EquivalentSites,
                              RunDirectoryName |-> Underscored(key)]))
            ELSE DefectLoop(rescaled_structure, unique_site_dict, defect_element,
                     k + 1, defect_number, defect_dict, unique_defects_dict)

\* Calculation_Type of the input file: 'Defect' is read in defect mode only
CalculationDicts ==
    {cd \in [Type : {"bulk", "defect", "surface"}, Defect : Elements \cup {"None"}] :
        cd.Defect = "None" <=> cd.Type # "defect"}

\* CalculationType.__init__ (lines 207-212) and the dispatch of
\* alter_structures on calculation_dict['Type'] (lines 250, 259-261, 287-289)
CalculationTypeInit ==
    /\ mpc = "done"
    /\ cpc = "idle"
    /\ \E cd \in CalculationDicts :
        /\ calculation_dict' = cd
        /\ calculation_structures_dict' = magnetized_structures_dict
        /\ cpos' = NextPair(magnetized_structures_dict, 1, 1)
        /\ IF cd.Type = "bulk"
           THEN /\ unique_defect_sites' = "None"
                /\ cpc' = "alter"
                /\ UNCHANGED printed
           ELSE IF cd.Type = "defect"
           THEN /\ unique_defect_sites' = EmptyDict
                /\ cpc' = "alter"
                /\ UNCHANGED printed
           ELSE /\ unique_defect_sites' = "None"
                /\ cpc' = "exited"
                /\ printed' = Append(printed,
                       <<"Calculation Type not recognized", cd.Type>>)
    /\ UNCHANGED <<enumVars, structures_dict, magnetization_dict, self_num_tries,
                   magnetized_structures_dict, unique_magnetizations,
                   structure_number, mpc, enumerator_calls, symmetry_log,
                   writeVars, rsVars>>

InAlter ==
    /\ cpc = "alter"
    /\ cpos[1] <= Len(calculation_structures_dict)

\* lines 253-257: one (structure, magnetism) pair of the bulk loops
AlterBulkPair ==
    /\ InAlter
    /\ calculation_dict.Type = "bulk"
    /\ LET structure == calculation_structures_dict[cpos[1]][1]
           magnetism == calculation_structures_dict[cpos[1]][2][cpos[2]][1]
           base_structure == calculation_structures_dict[cpos[1]][2][cpos[2]][2]
           bulk_dict == DictSet(EmptyDict, Name(Formula(base_structure), 0, " "),
                                base_structure)
       IN calculation_structures_dict' =
              DictSet2(calculation_structures_dict, structure, magnetism, bulk_dict)
    /\ cpos' = NextPair(calculation_structures_dict, cpos[1], cpos[2] + 1)
    /\ UNCHANGED <<calculation_dict, unique_defect_sites, cpc, symmetry_log,
                   enumVars, magVars, writeVars, rsVars>>

\* lines 264-285: one (structure, magnetism) pair of the defect loops
AlterDefectPair ==
    /\ InAlter
    /\ calculation_dict.Type = "defect"
    /\ LET structure == calculation_structures_dict[cpos[1]][1]
           magnetism == calculation_structures_dict[cpos[1]][2][cpos[2]][1]
           base_structure == calculation_structures_dict[cpos[1]][2][cpos[2]][2]
           n == Len(base_structure.species)
           rescaled_structure == StructureRescaler(base_structure)
           images == IF n = 0 THEN 1 ELSE Len(rescaled_structure.species) \div n
       IN \E equivalent_sites \in EquivalentPositions(rescaled_structure, n, images) :
            LET looped == DefectLoop(rescaled_structure,
                                     GetUniqueSites(equivalent_sites),
                                     calculation_dict.Defect, 1, 1,
                                     EmptyDict, EmptyDict)
            IN /\ calculation_structures_dict' =
                      DictSet2(calculation_structures_dict, structure, magnetism,
                               looped[1])
               /\ unique_defect_sites' =
                      IF looped[2] # EmptyDict
                      THEN DictSet(unique_defect_sites, structure, looped[2])
                      ELSE unique_defect_sites
               /\ symmetry_log' = DictSet(symmetry_log, cpos, equivalent_sites)
    /\ cpos' = NextPair(calculation_structures_dict, cpos[1], cpos[2] + 1)
    /\ UNCHANGED <<calculation_dict, cpc, enumVars, magVars, writeVars, rsVars>>

\* the loops of alter_structures are over: CalculationType.__init__ returns
AlterReturn ==
    /\ cpc = "alter"
    /\ cpos[1] > Len(calculation_structures_dict)
    /\ cpc' = "done"
    /\ UNCHANGED <<calculation_dict, calculation_structures_dict,
                   unique_defect_sites, cpos, symmetry_log, enumVars, magVars,
                   writeVars, rsVars>>

\* ------------------------------------------------------------------------
\* WriteVaspFiles
\* ------------------------------------------------------------------------
\* lines 301-305: os.mkdir, an existing directory is left as it is
CheckDirectoryExistence(existing, directory) == existing \cup {directory}

\* lines 308-311
Calc == IF calculation_dict.Type = "bulk" THEN <<"bulk">>
        ELSE <<calculation_dict.Defect, " defect">>

\* os.path.join of the directory names down to the structure
StructureDirPath(structure) == <<calculation_dict.Type, Underscored(structure)>>

\* os.path.join down to the magnetism; a label holds no space to replace
MagnetismDirPath(structure, magnetism) ==
    Append(StructureDirPath(structure), magnetism)

\* os.path.join down to the calculation type
CalculationTypePath(structure, magnetism, calculation_type) ==
    Append(MagnetismDirPath(structure, magnetism), Underscored(calculation_type))

\* WriteVaspFiles.__init__ and lines 308-314 of write_vasp_poscar
WriteBegin ==
    /\ cpc = "done"
    /\ wpc = "idle"
    /\ dirs' = CheckDirectoryExistence(dirs, <<calculation_dict.Type>>)
    /\ wpc' = "loop"
    /\ wpos' = NextPair(calculation_structures_dict, 1, 1)
    /\ UNCHANGED <<files, enumVars, magVars, calcVars, rsVars>>

InWrite ==
    /\ wpc = "loop"
    /\ wpos[1] <= Len(calculation_structures_dict)

WriteStructure == calculation_structures_dict[wpos[1]][1]

WriteMagnetism == calculation_structures_dict[wpos[1]][2][wpos[2]][1]

WriteVariants == calculation_structures_dict[wpos[1]][2][wpos[2]][2]

\* write_vasp_poscar without its empty dictionary check
IsEmptyMappingNever(mapping) == FALSE

\* line 321: not bool(mapping) == True
IsEmptyMapping(mapping) == ~((Len(mapping) # 0) = TRUE)

\* lines 321-324: the empty dictionary check
WriteSkipPair ==
    /\ InWrite
    /\ IsEmptyMapping(WriteVariants)
    /\ printed' = Append(printed, <<"not compatible with", WriteStructure, Calc>>)
    /\ wpos' = NextPair(calculation_structures_dict, wpos[1], wpos[2] + 1)
    /\ UNCHANGED <<dirs, files, wpc, enumVars, structures_dict,
                   magnetization_dict, self_num_tries, magnetized_structures_dict,
                   unique_magnetizations, structure_number, mpc, enumerator_calls,
                   calcVars, rsVars>>

\* lines 326-335: every variant of the pair is a Structure; its three
\* directories are made and its POSCAR is written
WritePair ==
    /\ InWrite
    /\ ~IsEmptyMapping(WriteVariants)
    /\ dirs' = dirs \cup UNION
           {{StructureDirPath(WriteStructure),
             MagnetismDirPath(WriteStructure, WriteMagnetism),
             CalculationTypePath(WriteStructure, WriteMagnetism,
                                 WriteVariants[k][1])} :
                k \in 1..Len(WriteVariants)}
    /\ files' = files
           \cup {Append(CalculationTypePath(WriteStructure, WriteMagnetism,
                                            WriteVariants[k][1]), "POSCAR") :
                    k \in 1..Len(WriteVariants)}
    /\ wpos' = NextPair(calculation_structures_dict, wpos[1], wpos[2] + 1)
    /\ UNCHANGED <<wpc, enumVars, magVars, calcVars, rsVars>>

\* the loops of write_vasp_poscar are over
WriteReturn ==
    /\ wpc = "loop"
    /\ wpos[1] > Len(calculation_structures_dict)
    /\ wpc' = "done"
    /\ UNCHANGED <<dirs, files, wpos, enumVars, magVars, calcVars, rsVars>>

\* ------------------------------------------------------------------------
\* The enumerator on its own: any reference vector, any K >= 0, T >= 0
\* ------------------------------------------------------------------------
\* one moment per site of a structure, which has at least one site
ReferenceVectors == UNION {[1..n -> Moments] : n \in 1..MaxLen}

CalcIdle ==
    /\ calculation_dict = [Type |-> "bulk", Defect |-> "None"]
    /\ calculation_structures_dict = EmptyDict
    /\ unique_defect_sites = "None"
    /\ cpc = "idle"
    /\ cpos = <<1, 1>>
    /\ symmetry_log = EmptyDict

WriteIdle ==
    /\ dirs = {}
    /\ files = {}
    /\ wpc = "idle"
    /\ wpos = <<1, 1>>

RescalerIdle ==
    /\ rs_structure = [species |-> <<>>, magmom |-> <<>>, has_magmom |-> FALSE]
    /\ rs_input = rs_structure
    /\ rs_supercells = <<>>
    /\ rs_pc = "idle"

LaterIdle == CalcIdle /\ WriteIdle /\ RescalerIdle

MagIdle ==
    /\ structures_dict = <<>>
    /\ magnetization_dict = [Scheme |-> "FM", Max_antiferro |-> 0]
    /\ self_num_tries = 0
    /\ magnetized_structures_dict = <<>>
    /\ unique_magnetizations = <<>>
    /\ structure_number = 1
    /\ mpc = "idle"
    /\ enumerator_calls = 1
    /\ printed = <<>>

InitEnum ==
    /\ ferro_magmom \in ReferenceVectors
    /\ used_enumerations = <<>>
    /\ num_afm \in 0..MaxAfm
    /\ num_tries \in 0..MaxTries
    /\ epc = "running"
    /\ target_count = num_afm
    /\ max_attempts = num_tries
    /\ nested_calls = 0
    /\ rejected = 0
    /\ MagIdle
    /\ LaterIdle

NextEnum == RafReject \/ RafAccept \/ RafReturn

SpecEnum == InitEnum /\ [][NextEnum]_vars

\* the interpreter keeps running the call until it returns
FairSpecEnum == SpecEnum /\ WF_vars(NextEnum)

\* ------------------------------------------------------------------------
\* Magnetism on its own: Magnetism(structures_dict, magnetization_dict, num_tries)
\* ------------------------------------------------------------------------
\* structures as PmgStructureObjects loads them: at least one site; a file may
\* or may not carry moments
InputStructures ==
    {[species |-> sp, magmom |-> [i \in 1..Len(sp) |-> IF hm THEN 1 ELSE 0],
      has_magmom |-> hm] :
        sp \in UNION {[1..n -> Elements] : n \in 1..MaxSites}, hm \in BOOLEAN}

EnumIdle ==
    /\ ferro_magmom = <<>>
    /\ used_enumerations = <<>>
    /\ num_afm = 0
    /\ num_tries = 0
    /\ epc = "idle"
    /\ target_count = 0
    /\ max_attempts = 0
    /\ nested_calls = 0
    /\ rejected = 0

\* Magnetism.__init__, lines 114-119
InitMag ==
    /\ structures_dict \in UNION {[1..n -> InputStructures] : n \in 0..MaxStructures}
    /\ magnetization_dict \in [Scheme : Schemes, Max_antiferro : 0..MaxAfm]
    /\ self_num_tries \in 0..MaxTries
    /\ magnetized_structures_dict = EmptyDict
    /\ unique_magnetizations = EmptyDict
    /\ structure_number = 1
    /\ mpc = "loop"
    /\ enumerator_calls = 0
    /\ printed = <<>>
    /\ EnumIdle
    /\ LaterIdle

NextMag ==
    \/ SchemePreserve
    \/ SchemeFM
    \/ SchemeAFM
    \/ SchemeFMAFM
    \/ SchemeUnknown
    \/ RafReject
    \/ RafAccept
    \/ RafReturn
    \/ AfmStructuresFinish
    \/ MagnetismReturn

SpecMag == InitMag /\ [][NextMag]_vars

\* ------------------------------------------------------------------------
\* structure_rescaler on its own
\* ------------------------------------------------------------------------
InitRescale ==
    /\ \E n \in 1..MaxAtoms, hm \in BOOLEAN :
           rs_structure = [species |-> [i \in 1..n |-> IF i % 2 = 1 THEN "Fe" ELSE "O"],
                           magmom |-> [i \in 1..n |-> IF hm THEN 1 ELSE 0],
                           has_magmom |-> hm]
    /\ rs_input = rs_structure
    /\ rs_supercells = <<>>
    /\ rs_pc = "call"
    /\ printed = <<>>
    /\ structures_dict = <<>>
    /\ magnetization_dict = [Scheme |-> "FM", Max_antiferro |-> 0]
    /\ self_num_tries = 0
    /\ magnetized_structures_dict = <<>>
    /\ unique_magnetizations = <<>>
    /\ structure_number = 1
    /\ mpc = "idle"
    /\ enumerator_calls = 0
    /\ EnumIdle
    /\ CalcIdle
    /\ WriteIdle

NextRescale == RescalerCall

SpecRescale == InitRescale /\ [][NextRescale]_vars

\* ------------------------------------------------------------------------
\* The pipeline: Magnetism, then CalculationType, then WriteVaspFiles
\* ------------------------------------------------------------------------
Init ==
    /\ structures_dict \in
           UNION {[1..n -> InputStructures] : n \in 0..PipeMaxStructures}
    /\ magnetization_dict \in [Scheme : Schemes, Max_antiferro : 0..PipeMaxAfm]
    /\ self_num_tries \in 0..PipeMaxTries
    /\ magnetized_structures_dict = EmptyDict
    /\ unique_magnetizations = EmptyDict
    /\ structure_number = 1
    /\ mpc = "loop"
    /\ enumerator_calls = 0
    /\ printed = <<>>
    /\ EnumIdle
    /\ LaterIdle

Next ==
    \/ SchemePreserve
    \/ SchemeFM
    \/ SchemeAFM
    \/ SchemeFMAFM
    \/ SchemeUnknown
    \/ RafReject
    \/ RafAccept
    \/ RafReturn
    \/ AfmStructuresFinish
    \/ MagnetismReturn
    \/ CalculationTypeInit
    \/ AlterBulkPair
    \/ AlterDefectPair
    \/ AlterReturn
    \/ WriteBegin
    \/ WriteSkipPair
    \/ WritePair
    \/ WriteReturn

Spec == Init /\ [][Next]_vars

\* ========================================================================
\* Properties
\* ========================================================================
Min(a, b) == IF a <= b THEN a ELSE b

Differ(a, b) == Len(a) # Len(b) \/ \E k \in 1..Len(a) : a[k] # b[k]

\* C1 (SpecEnum): at every step of the recursion and in the returned list,
\* no accepted enumeration is elementwise-equal to the reference vector and
\* no two accepted enumerations are elementwise-equal.
AcceptedDistinctAndNotReference ==
    /\ \A i \in 1..Len(used_enumerations) :
           Differ(used_enumerations[i], ferro_magmom)
    /\ \A i, j \in 1..Len(used_enumerations) :
           i < j => Differ(used_enumerations[i], used_enumerations[j])

\* C1 witness: a call that returned two enumerations after a rejected draw
AcceptedDistinctWitness ==
    /\ epc = "returned"
    /\ Len(used_enumerations) >= 2
    /\ rejected >= 1

\* C2 (SpecEnum): never more than target_count accepted elements and never
\* more than max_attempts rejected attempts.
WithinTargetAndAttempts ==
    /\ Len(used_enumerations) <= target_count
    /\ rejected <= max_attempts

\* C2 witness: a call that returned after using up all of its attempts, with
\* something accepted on the way
WithinTargetAndAttemptsWitness ==
    /\ epc = "returned"
    /\ max_attempts >= 2
    /\ rejected = max_attempts
    /\ Len(used_enumerations) >= 1
    /\ Len(used_enumerations) < target_count

\* C8 as stated (SpecEnum): the number of nested calls never exceeds
\* min(target_count, max_attempts).
DepthAtMostMin == nested_calls <= Min(target_count, max_attempts)

\* C8 amended (SpecEnum): no recursive call is made when target_count or
\* max_attempts is 0, and otherwise the number of nested calls never exceeds
\* target_count + max_attempts - 1.
DepthAtMostSum ==
    IF target_count = 0 \/ max_attempts = 0
    THEN nested_calls = 0
    ELSE nested_calls <= target_count + max_attempts - 1

\* C8 witness: a call that went as deep as the amended bound allows
DepthAtMostSumWitness ==
    /\ epc = "returned"
    /\ target_count >= 2
    /\ max_attempts >= 2
    /\ nested_calls = target_count + max_attempts - 1

\* one step of random_antiferromagnetic as C10 describes it
RejectionShape ==
    /\ num_afm # 0 /\ num_tries # 0
    /\ epc' = "running"
    /\ num_tries' = num_tries - 1
    /\ num_afm' = num_afm
    /\ used_enumerations' = used_enumerations

AcceptanceShape ==
    /\ num_afm # 0 /\ num_tries # 0
    /\ epc' = "running"
    /\ num_afm' = num_afm - 1
    /\ num_tries' = num_tries
    /\ Len(used_enumerations') = Len(used_enumerations) + 1
    /\ SubSeq(used_enumerations', 1, Len(used_enumerations)) = used_enumerations

ReturnShape ==
    /\ num_afm = 0 \/ num_tries = 0
    /\ epc' = "returned"
    /\ UNCHANGED <<num_afm, num_tries, used_enumerations>>

\* C10 (FairSpecEnum): the call eventually returns; every step before that is
\* a rejection (attempts - 1, list unchanged) or an acceptance (one candidate
\* appended, target count - 1, attempts unchanged), made only while both
\* counters are non-zero; it returns only when one of them is 0; and it makes
\* at most target_count + max_attempts draws.
EnumeratorTerminates ==
    /\ <>(epc = "returned")
    /\ [][epc = "running" => (RejectionShape \/ AcceptanceShape \/ ReturnShape)]_vars
    /\ [](nested_calls <= target_count + max_attempts)

\* C10 witness: a returned call that made both kinds of step
EnumeratorTerminatesWitness ==
    /\ epc = "returned"
    /\ rejected >= 1
    /\ Len(used_enumerations) >= 1
    /\ num_afm = 0

\* ---- Magnetism ----------------------------------------------------------
AllZero(magmom) == \A k \in 1..Len(magmom) : magmom[k] = 0

\* the structures whose loop iteration is over
Processed ==
    IF mpc = "idle" THEN {}
    ELSE {i \in 1..Len(structures_dict) : i < structure_number}

EntriesOf(d, i) == d[i][2]

AfmLabels(n) == [k \in 1..(n + 1) |-> IF k = 1 THEN <<"FM", 0>> ELSE <<"AFM", k - 1>>]

\* C3 (SpecMag): under 'FM+AFM', a processed structure whose ferromagnetic
\* vector is not all-zero has exactly the entries FM, AFM1..AFMn with
\* 0 <= n <= Max_antiferro, moment vectors pairwise distinct (the FM one
\* included), and n < Max_antiferro only when num_tries draws were rejected
\* (read off the enumerator's frame while it is still that structure's).
FmPlusAfmEntries ==
    magnetization_dict.Scheme = "FM+AFM" =>
        \A i \in Processed :
            LET ferro == FerroStructure(structures_dict[i]).magmom
                entries == EntriesOf(magnetized_structures_dict, i)
                moments == EntriesOf(unique_magnetizations, i)
                n == Len(entries) - 1
            IN ~AllZero(ferro) =>
                /\ n >= 0 /\ n <= magnetization_dict.Max_antiferro
                /\ DictKeys(entries) = AfmLabels(n)
                /\ DictKeys(moments) = AfmLabels(n)
                /\ entries[1][2].magmom = ferro
                /\ \A k \in 1..(n + 1) : moments[k][2] = entries[k][2].magmom
                /\ \A k, l \in 1..(n + 1) :
                       k < l => Differ(entries[k][2].magmom, entries[l][2].magmom)
                /\ (/\ i = structure_number - 1
                    /\ mpc # "enum"
                    /\ n < magnetization_dict.Max_antiferro)
                       => (rejected = self_num_tries /\ num_tries = 0)

\* C3 witness: a finished run that recorded FM, AFM1 and AFM2 for a structure
FmPlusAfmWitness ==
    /\ mpc = "done"
    /\ magnetization_dict.Scheme = "FM+AFM"
    /\ \E i \in Processed :
           /\ ~AllZero(FerroStructure(structures_dict[i]).magmom)
           /\ Len(EntriesOf(magnetized_structures_dict, i)) = 3

\* the structures for which afm_structures has been entered
AfmEntered ==
    Processed \cup (IF mpc = "enum" THEN {structure_number} ELSE {})

\* C4 (SpecMag): under 'AFM', the enumerator is called for the structures with
\* a non-zero ferromagnetic vector and for no other, and a processed structure
\* with an all-zero vector has exactly one entry, 'FM', the ferromagnetic
\* structure.
AllZeroGivesFmOnly ==
    magnetization_dict.Scheme = "AFM" =>
        /\ enumerator_calls =
               Cardinality({i \in AfmEntered :
                               ~AllZero(FerroStructure(structures_dict[i]).magmom)})
        /\ \A i \in Processed :
               AllZero(FerroStructure(structures_dict[i]).magmom) =>
                   /\ DictKeys(EntriesOf(magnetized_structures_dict, i)) = <<<<"FM", 0>>>>
                   /\ DictKeys(EntriesOf(unique_magnetizations, i)) = <<<<"FM", 0>>>>
                   /\ EntriesOf(magnetized_structures_dict, i)[1][2]
                          = FerroStructure(structures_dict[i])

\* C4 witness: a finished 'AFM' run, with enumerations and attempts asked for,
\* over a magnetic structure followed by a non-magnetic one that got its one
\* 'FM' entry
AllZeroGivesFmOnlyWitness ==
    /\ mpc = "done"
    /\ magnetization_dict.Scheme = "AFM"
    /\ magnetization_dict.Max_antiferro >= 1
    /\ self_num_tries >= 1
    /\ enumerator_calls = 1
    /\ \E i, j \in Processed :
           /\ i < j
           /\ ~AllZero(FerroStructure(structures_dict[i]).magmom)
           /\ AllZero(FerroStructure(structures_dict[j]).magmom)
           /\ Len(EntriesOf(magnetized_structures_dict, j)) = 1

\* C7 as stated (SpecMag): with a Scheme other than the four known ones the
\* constructor never completes normally, whatever the structure set.
UnknownSchemeNeverCompletes ==
    magnetization_dict.Scheme \notin {"preserve", "FM", "AFM", "FM+AFM"}
        => mpc # "done"

\* ---- CalculationType -----------------------------------------------------
\* the (structure, magnetism) index pairs of a nested dict
PairsOf(d) == UNION {{<<i, j>> : j \in 1..Len(d[i][2])} : i \in 1..Len(d)}

PairBefore(p, q) == p[1] < q[1] \/ (p[1] = q[1] /\ p[2] < q[2])

\* the (structure, magnetism) pairs alter_structures has dealt with
AlteredPairs ==
    IF cpc \notin {"alter", "done"} THEN {}
    ELSE {p \in PairsOf(magnetized_structures_dict) : PairBefore(p, cpos)}

\* the structure alter_structures was given for a pair
BaseOf(p) == magnetized_structures_dict[p[1]][2][p[2]][2]

VariantsOf(p) == calculation_structures_dict[p[1]][2][p[2]][2]

\* the supercell the rescaling table asks for
ExpectedSites(n) ==
    IF n <= 2 THEN 64 * n ELSE IF n <= 4 THEN 27 * n ELSE IF n <= 7 THEN 18 * n
    ELSE IF n <= 10 THEN 12 * n ELSE IF n <= 16 THEN 8 * n
    ELSE IF n <= 32 THEN 4 * n ELSE IF n <= 64 THEN 2 * n ELSE n

\* species of site r of the rescaled structure of a pair
RescaledSpecies(p, r) ==
    LET n == Len(BaseOf(p).species)
    IN BaseOf(p).species[((r - 1) \div (ExpectedSites(n) \div n)) + 1]

\* representatives of the classes of a pair whose species is the defect element
MatchingClasses(p) ==
    LET eq == DictGet(symmetry_log, p)
    IN {eq[r] : r \in {x \in 1..Len(eq) :
                          RescaledSpecies(p, eq[x]) = calculation_dict.Defect}}

\* number of members of the set s that are <= x
Rank(s, x) == Cardinality({y \in s : y <= x})

\* C5 (Spec): in defect mode every pair dealt with has one variant per class
\* of the defect species and none for another class; the k-th variant, in
\* class order, carries number k and is the rescaled structure without the
\* representative of the k-th such class and with every other site in place.
OneVariantPerDefectClass ==
    calculation_dict.Type = "defect" =>
        \A p \in AlteredPairs :
            LET variants == VariantsOf(p)
                reps == MatchingClasses(p)
                sites == ExpectedSites(Len(BaseOf(p).species))
            IN /\ Len(variants) = Cardinality(reps)
               /\ \A k \in 1..Len(variants) :
                      /\ variants[k][1].number = k
                      /\ \E rep \in reps :
                             /\ Rank(reps, rep) = k
                             /\ Len(variants[k][2].species) = sites - 1
                             /\ Len(variants[k][2].magmom) = sites - 1
                             /\ \A r \in 1..(sites - 1) :
                                    variants[k][2].species[r] =
                                        RescaledSpecies(p, IF r < rep THEN r ELSE r + 1)
               /\ \A k, l \in 1..Len(variants) :
                      k # l => variants[k][1] # variants[l][1]

\* C5 witness: defect shaping finished with two variants for one pair
OneVariantPerDefectClassWitness ==
    /\ cpc = "done"
    /\ calculation_dict.Type = "defect"
    /\ \E p \in AlteredPairs : Len(VariantsOf(p)) = 2

\* the pairs write_vasp_poscar has dealt with
WrittenPairs ==
    IF wpc \notin {"loop", "done"} THEN {}
    ELSE {p \in PairsOf(calculation_structures_dict) : PairBefore(p, wpos)}

PairDir(p) ==
    <<calculation_dict.Type,
      [calculation_structures_dict[p[1]][1] EXCEPT !.sep = "_"],
      calculation_structures_dict[p[1]][2][p[2]][1]>>

IsPrefix(a, b) == Len(a) <= Len(b) /\ SubSeq(b, 1, Len(a)) = a

SkipNotices == {k \in 1..Len(printed) : printed[k][1] = "not compatible with"}

\* C6 (Spec): a pair with no class of the defect species has an empty variant
\* mapping; once write_vasp_poscar is past it, one diagnostic per empty pair
\* was printed, nothing exists under the pair's directory, every variant of
\* every non-empty pair dealt with has its POSCAR, and the writer goes on to
\* the end of the batch.
EmptyPairsSkipped ==
    /\ calculation_dict.Type = "defect" =>
           \A p \in AlteredPairs : MatchingClasses(p) = {} => VariantsOf(p) = <<>>
    /\ LET empty == {p \in WrittenPairs : VariantsOf(p) = <<>>} IN
       /\ Cardinality(SkipNotices) = Cardinality(empty)
       /\ \A p \in empty :
              /\ \A d \in dirs : ~IsPrefix(PairDir(p), d)
              /\ \A f \in files : ~IsPrefix(PairDir(p), f)
              /\ \E k \in SkipNotices :
                     printed[k][2] = calculation_structures_dict[p[1]][1]
       /\ \A p \in WrittenPairs \ empty :
              \A k \in 1..Len(VariantsOf(p)) :
                  /\ Append(PairDir(p), [VariantsOf(p)[k][1] EXCEPT !.sep = "_"])
                         \in dirs
                  /\ Append(Append(PairDir(p),
                                   [VariantsOf(p)[k][1] EXCEPT !.sep = "_"]),
                            "POSCAR") \in files

\* C6 witness: the writer finished a defect batch whose first pair was empty
\* and whose later pair was written
EmptyPairsSkippedWitness ==
    /\ wpc = "done"
    /\ calculation_dict.Type = "defect"
    /\ \E p, q \in WrittenPairs :
           /\ PairBefore(p, q)
           /\ VariantsOf(p) = <<>>
           /\ VariantsOf(q) # <<>>
           /\ Append(Append(PairDir(q), [VariantsOf(q)[1][1] EXCEPT !.sep = "_"]),
                     "POSCAR") \in files

\* ---- structure_rescaler ---------------------------------------------------
\* the multiplier of the step lookup, by site count
LookupMultiplier(n) ==
    IF n \in 0..2 THEN <<4, 4, 4>>
    ELSE IF n \in 3..4 THEN <<3, 3, 3>>
    ELSE IF n \in 5..7 THEN <<3, 3, 2>>
    ELSE IF n \in 8..10 THEN <<3, 2, 2>>
    ELSE IF n \in 11..16 THEN <<2, 2, 2>>
    ELSE IF n \in 17..32 THEN <<2, 2, 1>>
    ELSE IF n \in 33..64 THEN <<2, 1, 1>>
    ELSE <<1, 1, 1>>

\* C9 (SpecRescale): structure_rescaler makes the supercell of the step lookup
\* (none above 64 sites) and the result has n times the product of the
\* multiplier sites: 5 sites give 90, 70 sites give 70.
RescalerFollowsLookup ==
    rs_pc = "returned" =>
        LET n == Len(rs_input.species)
            m == LookupMultiplier(n)
        IN /\ rs_supercells = (IF n > 64 THEN <<>> ELSE <<m>>)
           /\ Len(rs_structure.species) = n * m[1] * m[2] * m[3]
           /\ Len(rs_structure.magmom) = n * m[1] * m[2] * m[3]
           /\ (n = 5 => Len(rs_structure.species) = 90)
           /\ (n = 70 => Len(rs_structure.species) = 70)

\* C9 witness: a structure of 5 sites came back with 90
RescalerFollowsLookupWitness ==
    /\ rs_pc = "returned"
    /\ Len(rs_input.species) = 5
    /\ Len(rs_structure.species) = 90
    /\ rs_supercells = <<<<3, 3, 2>>>>

====
